---- MODULE Spec2Model ----
(***************************************************************************)
(* A model of the redux store (createStore), the reducer composer          *)
(* (combineReducers), the middleware enhancer (applyMiddleware) and the     *)
(* function composer (compose), translated from src/src/combineReducers.js  *)
(* and src/src/compose.js.                                                  *)
(*                                                                          *)
(* JavaScript values are modelled as records of one shape, so that the      *)
(* strict equality (===, !==) of the source can be computed: numbers        *)
(* compare by value, objects by reference (the field ref), undefined is     *)
(* equal to itself only.                                                    *)
(***************************************************************************)
EXTENDS Integers, Sequences, FiniteSets, TLC

\* ------------------------------------------------------------------ bounds
MaxOps == 4         \* subscribe calls plus reducer calls made in one run
MaxCalls == 2       \* calls of one composed reducer in SpecCombine
MaxLayerCalls == 4  \* calls of middleware layers made in one run
MaxFuncs == 3       \* length of the argument list of compose in SpecCompose

\* ------------------------------------------------------------------ values
Keys == {"a", "b", "c"}
Absent == -1
NoFields == [k \in Keys |-> Absent]

Undefined == [t |-> "undef", n |-> 0, ref |-> 0, f |-> NoFields]
Num(k) == [t |-> "num", n |-> k, ref |-> 0, f |-> NoFields]
Obj(r, fields) == [t |-> "obj", n |-> 0, ref |-> r, f |-> fields]

IsUndefined(v) == v.t = "undef"

\* x === y of the source
StrictEq(x, y) ==
  /\ x.t = y.t
  /\ x.t = "num" => x.n = y.n
  /\ x.t = "obj" => x.ref = y.ref

\* state[key] of the source: undefined unless state is an object that has key
GetKey(state, key) ==
  IF state.t = "obj" /\ state.f[key] # Absent THEN Num(state.f[key]) ELSE Undefined

\* Object.keys(state)
ObjectKeys(state) ==
  IF state.t = "obj" THEN {k \in Keys : state.f[k] # Absent} ELSE {}

\* ----------------------------------------------------------------- actions
INIT == "@@redux/INIT"
PROBE == "@@redux/PROBE_UNKNOWN_ACTION"
TypeUndefined == "undefined"

Action(type) == [plain |-> TRUE, type |-> type]
NotPlainAction == [plain |-> FALSE, type |-> TypeUndefined]
UserTypes == {"INC", "NOPE"}

\* ------------------------------------------------------------------ errors
NoError == [kind |-> "none", key |-> "", type |-> ""]
Error(kind) == [kind |-> kind, key |-> "", type |-> ""]
KeyError(kind, key, type) == [kind |-> kind, key |-> key, type |-> type]

\* ------------------------------------------------------------ sub-reducers
\* The sub-reducers handed to combineReducers, by behaviour:
\*   keep     (s = 0, a) => s
\*   counter  (s = 0, a) => a.type === 'INC' ? s + 1 : s
\*   noinit   (s, a) => s                    no default state
\*   noprobe  (s, a) => a.type === INIT && s === undefined ? 0 : s
\*   badact   (s = 0, a) => a.type === 'BAD' ? undefined : s
SubReducerKinds == {"keep", "counter", "noinit", "noprobe", "badact"}
NotAFunction == "notfn"

SubReduce(r, s, a) ==
  LET d == IF IsUndefined(s) THEN Num(0) ELSE s
  IN CASE r = "keep" -> d
       [] r = "counter" -> IF a.type = "INC" THEN Num(d.n + 1) ELSE d
       [] r = "noinit" -> s
       [] r = "noprobe" -> IF a.type = INIT /\ IsUndefined(s) THEN Num(0) ELSE s
       [] r = "badact" -> IF a.type = "BAD" THEN Undefined ELSE d

\* --------------------------------------------------------- combineReducers
\* A reducers argument is an ordered mapping: a sequence of [key, r] entries
\* with distinct keys, r a sub-reducer or a value that is not a function.

\* combineReducers, lines 121-136: the entries whose value is a function
FinalReducers(reducers) ==
  LET IsFunction(e) == e.r \in SubReducerKinds
  IN SelectSeq(reducers, IsFunction)

\* assertReducerSanity: the error thrown for the first key (insertion order)
\* whose reducer returns undefined for (undefined, INIT) or for
\* (undefined, probe); NoError when no key fails
RECURSIVE AssertReducerSanityFrom(_, _)
AssertReducerSanityFrom(final, i) ==
  IF i > Len(final) THEN NoError
  ELSE IF IsUndefined(SubReduce(final[i].r, Undefined, Action(INIT)))
    THEN KeyError("InitUndefined", final[i].key, INIT)
  ELSE IF IsUndefined(SubReduce(final[i].r, Undefined, Action(PROBE)))
    THEN KeyError("ProbeUndefined", final[i].key, PROBE)
  ELSE AssertReducerSanityFrom(final, i + 1)

AssertReducerSanity(final) == AssertReducerSanityFrom(final, 1)

\* a variant without the try/catch: the sanity error leaves combineReducers
SanityThrown(final) ==
  [thrown |-> AssertReducerSanity(final), sanityError |-> NoError]

\* the try/catch of lines 142-147: what combineReducers raises itself
\* (thrown) and what it keeps in var sanityError
SanityCaught(final) ==
  [thrown |-> NoError, sanityError |-> AssertReducerSanity(final)]

\* combineReducers(reducers): the error it raises and the closure it returns
CombineReducers(reducers) ==
  [thrown |-> SanityCaught(FinalReducers(reducers)).thrown,
   closure |-> [kind |-> "combination", name |-> "",
                final |-> FinalReducers(reducers),
                sanityError |-> SanityCaught(FinalReducers(reducers)).sanityError]]

FinalKeys(comb) == {comb.final[i].key : i \in 1..Len(comb.final)}

\* The loop of combination, lines 164-175, from index i on: the error of the
\* first key whose reducer returns undefined, or the accumulated nextState
\* fields and hasChanged. called is the sequence of keys whose sub-reducer
\* was called.
RECURSIVE CombinationLoop(_, _, _, _, _, _, _)
CombinationLoop(final, i, state, action, nextState, hasChanged, called) ==
  IF i > Len(final)
  THEN [err |-> NoError, f |-> nextState, hasChanged |-> hasChanged, called |-> called]
  ELSE
    LET key == final[i].key
        previousStateForKey == GetKey(state, key)
        nextStateForKey == SubReduce(final[i].r, previousStateForKey, action)
    IN IF IsUndefined(nextStateForKey)
       THEN [err |-> KeyError("UndefinedState", key, action.type),
             f |-> nextState, hasChanged |-> hasChanged,
             called |-> Append(called, key)]
       ELSE CombinationLoop(final, i + 1, state, action,
                            [nextState EXCEPT ![key] = nextStateForKey.n],
                            hasChanged \/ ~StrictEq(nextStateForKey, previousStateForKey),
                            Append(called, key))

\* a variant that always returns nextState
CombinationResultAlwaysNew(loop, state, fresh) == Obj(fresh, loop.f)

\* hasChanged ? nextState : state (line 176)
CombinationResult(loop, state, fresh) ==
  IF loop.hasChanged THEN Obj(fresh, loop.f) ELSE state

\* a variant without the check of lines 169-172: an undefined sub-result is
\* accumulated like any other
CombinationNoCheck(comb, stateArg, action, fresh) ==
  LET state == IF IsUndefined(stateArg) THEN Obj(fresh, NoFields) ELSE stateArg
      loop == CombinationLoop(comb.final, 1, state, action, NoFields, FALSE, <<>>)
  IN IF comb.sanityError # NoError
     THEN [err |-> comb.sanityError, val |-> Undefined, called |-> <<>>]
     ELSE [err |-> NoError,
           val |-> IF loop.err # NoError THEN Undefined
                   ELSE CombinationResult(loop, state, fresh),
           called |-> loop.called]

\* combination(state = {}, action), lines 150-177. fresh is the reference of
\* an object this call creates (the default {} or nextState). The result is
\* [err, val, called]: the error raised (NoError when it returns), the value
\* returned and the keys whose sub-reducers were called.
Combination(comb, stateArg, action, fresh) ==
  LET state == IF IsUndefined(stateArg) THEN Obj(fresh, NoFields) ELSE stateArg
      loop == CombinationLoop(comb.final, 1, state, action, NoFields, FALSE, <<>>)
  IN IF comb.sanityError # NoError
     THEN [err |-> comb.sanityError, val |-> Undefined, called |-> <<>>]
     ELSE IF loop.err # NoError
     THEN [err |-> loop.err, val |-> Undefined, called |-> loop.called]
     ELSE [err |-> NoError, val |-> CombinationResult(loop, state, fresh),
           called |-> loop.called]

\* a variant of getUnexpectedStateShapeWarningMessage that does not record
\* the keys it has named
UnexpectedStateShapeWarningNoCache(inputState, comb, cache) ==
  LET unexpectedKeys == {k \in ObjectKeys(inputState) : k \notin FinalKeys(comb)}
  IN IF Len(comb.final) = 0
     THEN [msg |-> "NoValidReducer", keys |-> {}, cache |-> cache]
     ELSE IF inputState.t # "obj"
     THEN [msg |-> "UnexpectedType", keys |-> {}, cache |-> cache]
     ELSE IF unexpectedKeys # {}
     THEN [msg |-> "UnexpectedKeys", keys |-> unexpectedKeys, cache |-> cache]
     ELSE [msg |-> "", keys |-> {}, cache |-> cache]

\* getUnexpectedStateShapeWarningMessage, lines 19-58: the warning it
\* returns ("" for none), the keys it names, and the cache afterwards
UnexpectedStateShapeWarning(inputState, comb, cache) ==
  LET unexpectedKeys == {k \in ObjectKeys(inputState) : k \notin FinalKeys(comb) /\ k \notin cache}
  IN IF Len(comb.final) = 0
     THEN [msg |-> "NoValidReducer", keys |-> {}, cache |-> cache]
     ELSE IF inputState.t # "obj"
     THEN [msg |-> "UnexpectedType", keys |-> {}, cache |-> cache]
     ELSE IF unexpectedKeys # {}
     THEN [msg |-> "UnexpectedKeys", keys |-> unexpectedKeys, cache |-> cache \cup unexpectedKeys]
     ELSE [msg |-> "", keys |-> {}, cache |-> cache]

\* warning(message), utils/warning: the message is reported and nothing is
\* raised; the operator gives the error the call raises
Warning(msg) == NoError

\* ---------------------------------------------------------------- reducers
\* A reducer handed to createStore / replaceReducer is either a closure made
\* by combineReducers or a plain function:
\*   counter    (state = 0, action) => action.type === 'INC' ? state + 1 : state
\*   forgetful  (state = 0, action) => action.type === 'NOPE' ? undefined : state
PlainReducer(name) ==
  [kind |-> "plain", name |-> name, final |-> <<>>, sanityError |-> NoError]

PlainReduce(name, s, a) ==
  LET d == IF IsUndefined(s) THEN Num(0) ELSE s
  IN CASE name = "counter" -> IF a.type = "INC" THEN Num(d.n + 1) ELSE d
       [] name = "forgetful" -> IF a.type = "NOPE" THEN Undefined ELSE d

\* a reducer argument that is not a function
NotAReducer ==
  [kind |-> "notfn", name |-> "", final |-> <<>>, sanityError |-> NoError]

\* reducer(state, action): [err, val, called]
Reduce(reducer, state, action, fresh) ==
  IF reducer.kind = "combination"
  THEN Combination(reducer, state, action, fresh)
  ELSE [err |-> NoError, val |-> PlainReduce(reducer.name, state, action),
        called |-> <<>>]

\* a reference no live object of the store has
FreshRef(state) == state.ref + 1

Entry(key, r) == [key |-> key, r |-> r]
ReducerABC ==
  CombineReducers(<<Entry("a", "counter"), Entry("b", "keep"), Entry("c", "keep")>>).closure
ReducerAB == CombineReducers(<<Entry("a", "counter"), Entry("b", "keep")>>).closure
ReducerBC == CombineReducers(<<Entry("b", "keep"), Entry("c", "counter")>>).closure
ReducerNoInit == CombineReducers(<<Entry("a", "keep"), Entry("b", "noinit")>>).closure
Counter == PlainReducer("counter")
Forgetful == PlainReducer("forgetful")

\* the (reducer, preloadedState) arguments of createStore that are explored
StoreConfigs ==
  { [reducer |-> Counter, preloaded |-> Undefined] }

\* the same for stores whose reducer is a composed reducer or a function
\* that does not keep the reducer contract
ShapeConfigs ==
  { [reducer |-> ReducerABC, preloaded |-> Undefined],
    [reducer |-> Forgetful, preloaded |-> Undefined],
    [reducer |-> ReducerAB, preloaded |-> Obj(1, [a |-> 0, b |-> 0, c |-> 0])] }

\* the arguments of replaceReducer that are explored
NextReducers(current) ==
  IF current.kind = "plain" THEN {Counter} ELSE {ReducerAB, ReducerBC, ReducerNoInit}

\* listener functions, by identity
Fns == {"f", "g"}
FnOrder == <<"f", "g">>

\* ----------------------------------------------------------------- compose
\* Function values, by reference (ref) and by what a call of them does:
\*   table     a unary function over Domain, given by its table (map)
\*   layer     what a middleware returns, next => action => ...
\*   identity  arg => arg, the closure of line 23
\*   composed  the closure of line 32, over the funcs it closes over
Domain == 0..2
NoTable == [x \in Domain |-> x]
TableFn(ref, map) == [ref |-> ref, kind |-> "table", map |-> map, funcs |-> <<>>]
Layer(name) == [ref |-> name, kind |-> "layer", map |-> NoTable, funcs |-> <<>>]
NoFunction == [ref |-> "none", kind |-> "none", map |-> NoTable, funcs |-> <<>>]

\* A dispatch function is the sequence of the middleware layers a call of it
\* goes through before it reaches store.dispatch; store.dispatch is <<>>.
RawDispatch == <<>>

\* f(x), and rest.reduceRight((composed, f) => f(composed), init). A layer
\* applied to the dispatch function next is the dispatch function that
\* enters the layer, whose next is next.
RECURSIVE Apply(_, _)
RECURSIVE ReduceRight(_, _)
Apply(f, x) ==
  CASE f.kind = "table" -> f.map[x]
    [] f.kind = "layer" -> <<f.ref>> \o x
    [] f.kind = "identity" -> x
    [] f.kind = "composed" ->
         ReduceRight(SubSeq(f.funcs, 1, Len(f.funcs) - 1), Apply(f.funcs[Len(f.funcs)], x))

ReduceRight(rest, init) ==
  IF rest = <<>> THEN init
  ELSE ReduceRight(SubSeq(rest, 1, Len(rest) - 1), Apply(rest[Len(rest)], init))

Reverse(seq) == [i \in 1..Len(seq) |-> seq[Len(seq) + 1 - i]]

\* a variant that folds from the left: the first function is applied first
composeReduce(funcs) ==
  IF Len(funcs) = 0
  THEN [ref |-> "arrow", kind |-> "identity", map |-> NoTable, funcs |-> <<>>]
  ELSE IF Len(funcs) = 1 THEN funcs[1]
  ELSE [ref |-> "arrow", kind |-> "composed", map |-> NoTable, funcs |-> Reverse(funcs)]

\* compose(...funcs), compose.js lines 21-33: the function it returns
compose(funcs) ==
  IF Len(funcs) = 0
  THEN [ref |-> "arrow", kind |-> "identity", map |-> NoTable, funcs |-> <<>>]
  ELSE IF Len(funcs) = 1 THEN funcs[1]
  ELSE [ref |-> "arrow", kind |-> "composed", map |-> NoTable, funcs |-> funcs]

\* a variant of line 575 that leaves the store's dispatch in place
AugmentedDispatchRaw(ch) == RawDispatch

\* applyMiddleware, line 575: compose(...chain)(store.dispatch)
AugmentedDispatch(ch) == Apply(compose(ch), RawDispatch)

\* the middlewares handed to applyMiddleware, and the observers handed to
\* observable().subscribe, by identity
MwOrder == <<"m1", "m2">>
ObsOrder == <<"o1", "o2", "o3", "o4", "o5", "o6">>
ObsNames == {ObsOrder[i] : i \in DOMAIN ObsOrder}

\* ------------------------------------------------------------------- store
VARIABLES
  currentReducer,    \* createStore: var currentReducer
  currentState,      \* createStore: var currentState
  arrays,            \* the listener arrays in memory, by reference
  currentListeners,  \* createStore: var currentListeners (a reference)
  nextListeners,     \* createStore: var nextListeners (a reference)
  isDispatching,     \* createStore: var isDispatching
  subs,              \* the closures made by subscribe: [listener, isSubscribed]
  stack,             \* the dispatch calls in progress, outermost first
  exc,               \* the error being raised, NoError when none
  nDispatch,         \* number of dispatch calls that reached their reducer call
  config,            \* the arguments createStore was called with
  applied            \* the (reducer, action) pairs of the reducer calls that returned

\* --------------------------------------------- a composed reducer on its own
VARIABLES
  cpc,        \* "idle", "start" (before combineReducers), "composed", "failed"
  creducers,  \* the argument of combineReducers
  comb,       \* the closure combineReducers returned
  cache,      \* the closure's unexpectedKeyCache
  cstate,     \* the state argument of the last call of the closure
  caction,    \* the action argument of the last call of the closure
  cresult,    \* what the last call did: [err, val, called]
  cwarned,    \* the keys each call's unexpected-keys warning named, in call order
  ncalls,     \* number of calls of the closure so far
  cstore      \* what createStore(closure, preloadedState) did

combineVars == <<cpc, creducers, comb, cache, cstate, caction, cresult, cwarned,
                 ncalls, cstore>>

\* ------------------------------------------------------------ applyMiddleware
\* mw is the state of one call of applyMiddleware(...)(createStore)(reducer):
\*   middlewares  the middlewares argument, by identity
\*   pc           "none" (no enhancer), "setup" (line 574), "ready" (the
\*                augmented store was returned), "failed"
\*   chain        var chain, the layers made so far
\*   dispatch     var dispatch, a dispatch function
\*   nLayer       number of calls of middleware layers so far
\* kc is the state of one call of compose and of the function it returned:
\*   pc     "start" (before the call of compose), "composed", "done", "idle"
\*   funcs  the arguments of compose
\*   arg    the argument the composed function is called with
\*   ret    the function compose returned
\*   out    what the composed function returned for arg
\* delivered: per observer, the values its next was called with, in order
VARIABLES mw, kc, delivered

enhancerVars == <<mw, kc>>

storeVars == <<currentReducer, currentState, arrays, currentListeners,
               nextListeners, isDispatching, subs, stack, exc, nDispatch,
               config, applied>>

\* every dispatch in progress holds one array, and the store two
ArrayIds == 1..(MaxOps + 2)

\* the run may make one more subscribe call or reducer call
WithinBudget == nDispatch + Len(subs) < MaxOps

\* Listener functions are told apart by identity only: a subscribe call
\* gets a function already subscribed once or the first unused one.
KnownFns == {subs[i].listener : i \in DOMAIN subs}
SubscribeInputs ==
  KnownFns \cup {FnOrder[i] : i \in {j \in 1..Len(FnOrder) : j = Cardinality(KnownFns) + 1}}

Top == stack[Len(stack)]
Pop(s) == SubSeq(s, 1, Len(s) - 1)
ReplaceTop(s, frame) == [s EXCEPT ![Len(s)] = frame]

\* the code that is running may call the store: the top level, a listener
\* body or a reducer body, with no error in flight
InUserCode == stack # <<>> /\ Top.phase \in {"reducer", "listener", "next"}
CanCall ==
  /\ exc = NoError
  /\ stack = <<>> \/ InUserCode
  /\ mw.pc \in {"none", "ready"}    \* the store has been handed to its user

\* the arrays some variable still refers to
LiveArrays(cur, next, stk) ==
  {cur, next} \cup {stk[k].listeners : k \in {j \in 1..Len(stk) : stk[j].phase # "reducer"}}

\* currentListeners.slice(): a reference no variable refers to
NewArray == CHOOSE a \in ArrayIds : a \notin LiveArrays(currentListeners, nextListeners, stack)
              /\ \A b \in ArrayIds : b < a => b \in LiveArrays(currentListeners, nextListeners, stack)

\* the heap with the unreferenced arrays collected
Collect(heap, cur, next, stk) ==
  [a \in ArrayIds |-> IF a \in LiveArrays(cur, next, stk) THEN heap[a] ELSE <<>>]

\* a variant of ensureCanMutateNextListeners that never copies
EnsureNoCopy == [next |-> nextListeners, heap |-> arrays]

\* a variant of ensureCanMutateNextListeners with the test inverted: it
\* copies when nextListeners is already an array of its own
EnsureInverted ==
  IF nextListeners # currentListeners
  THEN [next |-> NewArray, heap |-> [arrays EXCEPT ![NewArray] = arrays[nextListeners]]]
  ELSE [next |-> nextListeners, heap |-> arrays]

\* ensureCanMutateNextListeners, lines 271-275: the reference nextListeners
\* holds afterwards, and the heap: when nextListeners is currentListeners it
\* becomes a copy of that array
EnsureCanMutateNextListeners ==
  IF nextListeners = currentListeners
  THEN [next |-> NewArray, heap |-> [arrays EXCEPT ![NewArray] = arrays[currentListeners]]]
  ELSE [next |-> nextListeners, heap |-> arrays]

\* array.indexOf(x): 0-based index of the first occurrence, -1 when absent
IndexOf(array, x) ==
  IF \E i \in 1..Len(array) : array[i] = x
  THEN (CHOOSE i \in 1..Len(array) : array[i] = x /\ \A j \in 1..(i - 1) : array[j] # x) - 1
  ELSE -1

\* array.splice(index, 1): a negative index counts from the end
Splice1(array, index) ==
  LET start == IF index < 0 THEN (IF Len(array) + index < 0 THEN 0 ELSE Len(array) + index)
               ELSE index
  IN [i \in 1..(IF start < Len(array) THEN Len(array) - 1 ELSE Len(array)) |->
        IF i <= start THEN array[i] ELSE array[i + 1]]

\* the subscriptions whose unsubscribe has not run: isSubscribed is true
Active == {s \in DOMAIN subs : subs[s].isSubscribed}

\* The frame of a dispatch call whose reducer call starts now. The fields
\* regsBefore, prev, regs, snap and called record what the call met and did.
NewFrame(action, via) ==
  [via |-> via, action |-> action,
   reducer |-> currentReducer',      \* the function line 417 calls
   phase |-> "reducer",
   listeners |-> 0, i |-> 0,         \* var listeners, var i of the loop
   regsBefore |-> Active,            \* the subscriptions when dispatch was entered
   nsubs |-> Len(subs),              \* the subscribe calls made before that
   prev |-> currentState,            \* the state when dispatch was entered
   regs |-> {},                      \* the subscriptions when the loop started
   snap |-> <<>>,                    \* the list when the loop started
   called |-> <<>>,                  \* the listeners the loop has invoked
   layer |-> "", next |-> <<>>]      \* used by the frames of middleware only

\* a variant of the checks without the one of line 410
DispatchCheckNoGuard(action) ==
  IF ~action.plain THEN Error("NotPlainObject")
  ELSE IF action.type = TypeUndefined THEN Error("UndefinedType")
  ELSE NoError

\* the checks of dispatch, lines 395-412: the error raised, NoError when the
\* call goes on to the reducer
DispatchCheck(action) ==
  IF ~action.plain THEN Error("NotPlainObject")
  ELSE IF action.type = TypeUndefined THEN Error("UndefinedType")
  ELSE IF isDispatching THEN Error("ReducersMayNotDispatch")
  ELSE NoError

\* dispatch(action), lines 394-417: the checks, then the reducer call starts
DispatchEnter(action, via) ==
  IF DispatchCheck(action) # NoError
  THEN exc' = DispatchCheck(action) /\ UNCHANGED <<stack, isDispatching, nDispatch>>
  ELSE /\ WithinBudget
       /\ nDispatch' = nDispatch + 1
       /\ isDispatching' = TRUE
       /\ stack' = Append(stack, NewFrame(action, via))
       /\ exc' = NoError

\* store.dispatch(action), called from the top level, a listener or a reducer
Dispatch(action) ==
  /\ UNCHANGED <<combineVars, enhancerVars, delivered>>
  /\ CanCall
  /\ UNCHANGED currentReducer
  /\ DispatchEnter(action, "dispatch")
  /\ UNCHANGED <<currentState, arrays, currentListeners, nextListeners, subs,
                 config, applied>>

\* store.replaceReducer(nextReducer), lines 446-453
ReplaceReducer(nextReducer) ==
  /\ UNCHANGED <<combineVars, enhancerVars, delivered>>
  /\ CanCall
  /\ IF nextReducer = NotAReducer
     THEN /\ exc' = Error("NextReducerNotFunction")
          /\ UNCHANGED <<currentReducer, stack, isDispatching, nDispatch>>
     ELSE /\ currentReducer' = nextReducer
          /\ DispatchEnter(Action(INIT), "replaceReducer")
  /\ UNCHANGED <<currentState, arrays, currentListeners, nextListeners, subs,
                 config, applied>>

\* a variant that clears the flag in a catch only
AfterTryOnRaise(raised) == ~raised

\* a variant without the finally: the flag is cleared on a return only
AfterTryNoFinally(raised) == raised

\* the value of isDispatching when the try statement of lines 414-420 is
\* left, by a return or by the reducer raising: finally clears it
AfterTry(raised) == FALSE

\* a variant of line 422 that iterates currentListeners as it is, without
\* taking nextListeners
ListenersStale == currentListeners

\* line 422, var listeners = currentListeners = nextListeners: the array
\* the loop iterates
Listeners == nextListeners

\* a variant of observeState that never calls observer.next
observeStateSilent(o) == delivered

\* observeState, lines 493-497, the listener the adapter subscribes for an
\* observer o that has a next method: observer.next(getState())
observeState(o) == [delivered EXCEPT ![o] = Append(@, currentState)]

\* a variant of line 417 that stores what the reducer call left behind
\* even when it raised
AssignedAlways(res) == res.val

\* line 417, currentState = currentReducer(currentState, action): the
\* assignment takes place only when the call returns
Assigned(res) == IF res.err # NoError THEN currentState ELSE res.val

\* The reducer call of the innermost dispatch ends, lines 417-422: if it
\* raised, the flag is cleared and the error goes to the caller; otherwise
\* the state is assigned, the flag is cleared and the loop starts on
\* listeners = currentListeners = nextListeners.
ReducerReturn ==
  /\ UNCHANGED <<combineVars, enhancerVars, delivered>>
  /\ exc = NoError
  /\ stack # <<>> /\ Top.phase = "reducer"
  /\ LET res == Reduce(Top.reducer, currentState, Top.action, FreshRef(currentState))
     IN IF res.err # NoError
        THEN /\ exc' = res.err
             /\ stack' = Pop(stack)
             /\ currentState' = Assigned(res)
             /\ UNCHANGED <<currentListeners, applied>>
        ELSE /\ currentState' = Assigned(res)
             /\ currentListeners' = Listeners
             /\ stack' = ReplaceTop(stack, [Top EXCEPT !.phase = "notify",
                                                       !.listeners = Listeners,
                                                       !.i = 0,
                                                       !.regs = Active,
                                                       !.snap = arrays[Listeners]])
             /\ applied' = Append(applied, [reducer |-> Top.reducer, action |-> Top.action])
             /\ UNCHANGED exc
  /\ isDispatching' = AfterTry(Reduce(Top.reducer, currentState, Top.action, FreshRef(currentState)).err # NoError)
  /\ arrays' = Collect(arrays, currentListeners', nextListeners, stack')
  /\ UNCHANGED <<currentReducer, nextListeners, subs, nDispatch, config>>

\* the loop of lines 423-426 calls listeners[i]
NotifyListener ==
  /\ UNCHANGED <<combineVars, enhancerVars>>
  /\ exc = NoError
  /\ stack # <<>> /\ Top.phase = "notify"
  /\ Top.i < Len(arrays[Top.listeners])
  /\ stack' = ReplaceTop(stack, [Top EXCEPT !.phase = "listener",
                                            !.called = Append(@, arrays[Top.listeners][Top.i + 1])])
  /\ LET listener == arrays[Top.listeners][Top.i + 1]
     IN delivered' = IF listener \in ObsNames THEN observeState(listener) ELSE delivered
  /\ UNCHANGED <<currentReducer, currentState, arrays, currentListeners,
                 nextListeners, isDispatching, subs, exc, nDispatch, config, applied>>

\* listeners[i] returns: i++
ListenerReturn ==
  /\ UNCHANGED <<combineVars, enhancerVars, delivered>>
  /\ exc = NoError
  /\ stack # <<>> /\ Top.phase = "listener"
  /\ stack' = ReplaceTop(stack, [Top EXCEPT !.phase = "notify", !.i = @ + 1])
  /\ UNCHANGED <<currentReducer, currentState, arrays, currentListeners,
                 nextListeners, isDispatching, subs, exc, nDispatch, config, applied>>

\* the loop is over: dispatch returns the action, line 428
DispatchReturn ==
  /\ UNCHANGED <<combineVars, enhancerVars, delivered>>
  /\ exc = NoError
  /\ stack # <<>> /\ Top.phase = "notify"
  /\ Top.i >= Len(arrays[Top.listeners])
  /\ stack' = Pop(stack)
  /\ arrays' = Collect(arrays, currentListeners, nextListeners, stack')
  /\ UNCHANGED <<currentReducer, currentState, currentListeners,
                 nextListeners, isDispatching, subs, exc, nDispatch, config, applied>>

\* store.subscribe(listener), lines 330-340
Subscribe(listener) ==
  /\ UNCHANGED <<combineVars, enhancerVars, delivered>>
  /\ CanCall
  /\ WithinBudget
  /\ IF listener = NotAFunction
     THEN /\ exc' = Error("ListenerNotFunction")
          /\ UNCHANGED <<arrays, nextListeners, subs>>
     ELSE /\ nextListeners' = EnsureCanMutateNextListeners.next
          /\ arrays' = [EnsureCanMutateNextListeners.heap EXCEPT
                          ![nextListeners'] = Append(@, listener)]
          /\ subs' = Append(subs, [listener |-> listener, isSubscribed |-> TRUE])
          /\ UNCHANGED exc
  /\ UNCHANGED <<currentReducer, currentState, currentListeners, isDispatching,
                 stack, nDispatch, config, applied>>

\* the unsubscribe function returned by the s-th subscribe call, lines 341-351
Unsubscribe(s) ==
  /\ UNCHANGED <<combineVars, enhancerVars, delivered>>
  /\ CanCall
  /\ s \in DOMAIN subs
  /\ IF ~subs[s].isSubscribed
     THEN UNCHANGED <<arrays, nextListeners, subs>>
     ELSE /\ subs' = [subs EXCEPT ![s].isSubscribed = FALSE]
          /\ nextListeners' = EnsureCanMutateNextListeners.next
          /\ LET heap == EnsureCanMutateNextListeners.heap
                 index == IndexOf(heap[nextListeners'], subs[s].listener)
             IN arrays' = [heap EXCEPT ![nextListeners'] = Splice1(@, index)]
  /\ UNCHANGED <<currentReducer, currentState, currentListeners, isDispatching,
                 stack, exc, nDispatch, config, applied>>

\* the running listener or reducer raises an error of its own
Throw ==
  /\ UNCHANGED <<combineVars, enhancerVars, delivered>>
  /\ exc = NoError
  /\ InUserCode
  /\ exc' = Error("UserError")
  /\ UNCHANGED <<currentReducer, currentState, arrays, currentListeners,
                 nextListeners, isDispatching, subs, stack, nDispatch, config, applied>>

\* the code that made the failing call catches the error: the top-level
\* caller, or a try/catch in the running listener or reducer
Catch ==
  /\ UNCHANGED <<combineVars, enhancerVars, delivered>>
  /\ exc # NoError
  /\ stack = <<>> \/ InUserCode
  /\ exc' = NoError
  /\ UNCHANGED <<currentReducer, currentState, arrays, currentListeners,
                 nextListeners, isDispatching, subs, stack, nDispatch, config, applied>>

\* The running listener or reducer does not catch the error: it leaves the
\* dispatch call it runs in, through the finally of line 418 if that call
\* is in its reducer call, and reaches the caller of that dispatch.
Propagate ==
  /\ UNCHANGED <<combineVars, enhancerVars, delivered>>
  /\ exc # NoError
  /\ stack # <<>> /\ Top.phase # "setup"
  /\ stack' = Pop(stack)
  /\ isDispatching' = IF Top.phase = "reducer" THEN AfterTry(TRUE) ELSE isDispatching
  /\ arrays' = Collect(arrays, currentListeners, nextListeners, stack')
  /\ UNCHANGED <<currentReducer, currentState, currentListeners,
                 nextListeners, subs, exc, nDispatch, config, applied>>

\* ------------------------------------------------------------- createStore
\* a variant of createStore without the dispatch of line 516
CreateStoreNoInit(reducer, preloadedState) ==
  [err |-> IF reducer = NotAReducer THEN Error("ReducerNotFunction") ELSE NoError,
   currentReducer |-> reducer, currentState |-> preloadedState]

\* createStore(reducer, preloadedState), lines 261-269 and 516: the error it
\* raises, or the fields of the store it returns. The dispatch of line 516
\* finds no listener to call.
CreateStore(reducer, preloadedState) ==
  LET res == Reduce(reducer, preloadedState, Action(INIT), FreshRef(preloadedState))
  IN IF reducer = NotAReducer
     THEN [err |-> Error("ReducerNotFunction"), currentReducer |-> reducer,
           currentState |-> preloadedState]
     ELSE [err |-> res.err, currentReducer |-> reducer,
           currentState |-> IF res.err = NoError THEN res.val ELSE preloadedState]

NoStore == [built |-> FALSE, err |-> NoError, currentState |-> Undefined]

NoCall == [err |-> NoError, val |-> Undefined, called |-> <<>>]

CombineIdle ==
  /\ cpc = "idle"
  /\ creducers = <<>>
  /\ comb = CombineReducers(<<>>).closure
  /\ cache = {}
  /\ cstate = Undefined
  /\ caction = Action(INIT)
  /\ cresult = NoCall
  /\ cwarned = <<>>
  /\ ncalls = 0
  /\ cstore = NoStore

\* no enhancer, no call of compose, no observer
MwIdle ==
  mw = [middlewares |-> <<>>, pc |-> "none", chain |-> <<>>, dispatch |-> RawDispatch,
        nLayer |-> 0]

ComposeIdle ==
  kc = [pc |-> "idle", funcs |-> <<>>, arg |-> 0, ret |-> NoFunction, out |-> 0]

NoDeliveries == [o \in ObsNames |-> <<>>]

\* the store createStore returned, for the arguments c
StoreInit(c) ==
  /\ CreateStore(c.reducer, c.preloaded).err = NoError
  /\ config = c
  /\ currentReducer = CreateStore(c.reducer, c.preloaded).currentReducer
  /\ currentState = CreateStore(c.reducer, c.preloaded).currentState
  /\ arrays = [a \in ArrayIds |-> <<>>]
  /\ currentListeners = 1
  /\ nextListeners = 1
  /\ isDispatching = FALSE
  /\ subs = <<>>
  /\ stack = <<>>
  /\ exc = NoError
  /\ nDispatch = 0
  /\ applied = <<>>

Init ==
  /\ CombineIdle /\ MwIdle /\ ComposeIdle /\ delivered = NoDeliveries
  /\ \E c \in StoreConfigs : StoreInit(c)

InitShape ==
  /\ CombineIdle /\ MwIdle /\ ComposeIdle /\ delivered = NoDeliveries
  /\ \E c \in ShapeConfigs : StoreInit(c)

\* The arguments the store's operations are called with. A call with an
\* invalid argument does nothing but raise, so inside a listener or a
\* reducer it is the action Throw; the top level makes such calls.
Invalid(values) == IF stack = <<>> THEN values ELSE {}
DispatchInputs ==
  {Action(t) : t \in UserTypes} \cup Invalid({NotPlainAction, Action(TypeUndefined)})
ReplaceInputs == NextReducers(currentReducer) \cup Invalid({NotAReducer})

\* The calls the store of the counter gets: listeners and reducers
\* dispatch INC, subscribe and unsubscribe; the top level also dispatches
\* NOPE, which leaves the state as it is, and replaces the reducer.
CounterInputs ==
  {Action("INC")} \cup (IF stack = <<>> THEN {Action("NOPE")} ELSE {})
                  \cup Invalid({NotPlainAction, Action(TypeUndefined)})
CounterReplacements == IF stack = <<>> THEN ReplaceInputs ELSE {}

Next ==
  \/ \E a \in CounterInputs : Dispatch(a)
  \/ \E r \in CounterReplacements : ReplaceReducer(r)
  \/ ReducerReturn
  \/ NotifyListener
  \/ ListenerReturn
  \/ DispatchReturn
  \/ \E l \in SubscribeInputs \cup Invalid({NotAFunction}) : Subscribe(l)
  \/ \E s \in DOMAIN subs : Unsubscribe(s)
  \/ Throw
  \/ Catch
  \/ Propagate

vars == <<storeVars, combineVars, enhancerVars, delivered>>

Spec == Init /\ [][Next]_vars

\* a store whose reducer is a composed reducer and that nobody subscribes to
NextShape ==
  \/ \E a \in DispatchInputs : Dispatch(a)
  \/ \E r \in ReplaceInputs : ReplaceReducer(r)
  \/ ReducerReturn
  \/ DispatchReturn
  \/ Throw
  \/ Catch
  \/ Propagate

SpecShape == InitShape /\ [][NextShape]_vars

\* ----------------------------------------------------------- applyMiddleware
\* The frame of a call of a middleware layer (phase "mw": the body of
\* action => ... runs) or of a middleware itself (phase "setup": the body of
\* api => ... runs, line 574). layer names the middleware, next is the
\* dispatch function the layer was made with.
LayerFrame(phase, layer, next, action, via) ==
  [via |-> via, action |-> action, reducer |-> NotAReducer, phase |-> phase,
   listeners |-> 0, i |-> 0, regsBefore |-> {}, nsubs |-> 0, prev |-> Undefined,
   regs |-> {}, snap |-> <<>>, called |-> <<>>,
   layer |-> layer, next |-> next]

InMiddleware == stack # <<>> /\ Top.phase \in {"mw", "setup"}

\* d(action) for a dispatch function d: store.dispatch(action), or the call
\* of the first layer of d. via names the expression that makes the call.
Invoke(d, action, via) ==
  IF d = RawDispatch
  THEN DispatchEnter(action, via) /\ UNCHANGED mw
  ELSE /\ mw.nLayer < MaxLayerCalls
       /\ mw' = [mw EXCEPT !.nLayer = @ + 1]
       /\ stack' = Append(stack, LayerFrame("mw", Head(d), Tail(d), action, via))
       /\ UNCHANGED <<exc, isDispatching, nDispatch>>

\* line 574, one step of the map: middleware(middlewareAPI) is called
SetupEnter ==
  /\ mw.pc = "setup" /\ stack = <<>> /\ exc = NoError
  /\ Len(mw.chain) < Len(mw.middlewares)
  /\ stack' = Append(stack, LayerFrame("setup", mw.middlewares[Len(mw.chain) + 1], <<>>,
                                       Action(INIT), "applyMiddleware"))
  /\ UNCHANGED <<currentReducer, currentState, arrays, currentListeners,
                 nextListeners, isDispatching, subs, exc, nDispatch, config, applied>>
  /\ UNCHANGED <<mw, kc, combineVars, delivered>>

\* middleware(middlewareAPI) returns its layer, which goes into chain
SetupReturn ==
  /\ exc = NoError
  /\ stack # <<>> /\ Top.phase = "setup"
  /\ stack' = Pop(stack)
  /\ mw' = [mw EXCEPT !.chain = Append(@, Layer(Top.layer))]
  /\ UNCHANGED <<currentReducer, currentState, arrays, currentListeners,
                 nextListeners, isDispatching, subs, exc, nDispatch, config, applied>>
  /\ UNCHANGED <<kc, combineVars, delivered>>

\* middleware(middlewareAPI) raises: applyMiddleware raises, no store is returned
SetupRaise ==
  /\ exc # NoError
  /\ stack # <<>> /\ Top.phase = "setup"
  /\ stack' = Pop(stack)
  /\ mw' = [mw EXCEPT !.pc = "failed"]
  /\ UNCHANGED <<currentReducer, currentState, arrays, currentListeners,
                 nextListeners, isDispatching, subs, exc, nDispatch, config, applied>>
  /\ UNCHANGED <<kc, combineVars, delivered>>

\* lines 575-580: dispatch = compose(...chain)(store.dispatch), and the
\* augmented store is returned
SetupFinish ==
  /\ mw.pc = "setup" /\ stack = <<>> /\ exc = NoError
  /\ Len(mw.chain) = Len(mw.middlewares)
  /\ mw' = [mw EXCEPT !.dispatch = AugmentedDispatch(mw.chain), !.pc = "ready"]
  /\ UNCHANGED storeVars
  /\ UNCHANGED <<kc, combineVars, delivered>>

\* the dispatch of the augmented store (line 579) is called, from the top
\* level, a listener or a reducer
StoreDispatch(action) ==
  /\ CanCall
  /\ mw.pc = "ready"
  /\ UNCHANGED currentReducer
  /\ Invoke(mw.dispatch, action, "dispatch")
  /\ UNCHANGED <<currentState, arrays, currentListeners, nextListeners, subs,
                 config, applied>>
  /\ UNCHANGED <<kc, combineVars, delivered>>

\* middlewareAPI.dispatch(action), line 570: (action) => dispatch(action),
\* called by the running middleware or layer
ApiDispatch(action) ==
  /\ exc = NoError
  /\ InMiddleware
  /\ UNCHANGED currentReducer
  /\ Invoke(mw.dispatch, action, "api")
  /\ UNCHANGED <<currentState, arrays, currentListeners, nextListeners, subs,
                 config, applied>>
  /\ UNCHANGED <<kc, combineVars, delivered>>

\* the running layer calls next(action) with the action it was called with
LayerNext ==
  /\ exc = NoError
  /\ stack # <<>> /\ Top.phase = "mw"
  /\ UNCHANGED currentReducer
  /\ Invoke(Top.next, Top.action, "next")
  /\ UNCHANGED <<currentState, arrays, currentListeners, nextListeners, subs,
                 config, applied>>
  /\ UNCHANGED <<kc, combineVars, delivered>>

\* the running layer returns
LayerReturn ==
  /\ exc = NoError
  /\ stack # <<>> /\ Top.phase = "mw"
  /\ stack' = Pop(stack)
  /\ UNCHANGED <<currentReducer, currentState, arrays, currentListeners,
                 nextListeners, isDispatching, subs, exc, nDispatch, config, applied>>
  /\ UNCHANGED <<mw, kc, combineVars, delivered>>

\* the store applyMiddleware(...middlewares)(createStore)(counter) is building,
\* after line 565
InitMiddleware ==
  /\ \E c \in StoreConfigs : StoreInit(c)
  /\ CombineIdle /\ ComposeIdle /\ delivered = NoDeliveries
  /\ \E k \in 0..Len(MwOrder) :
       mw = [middlewares |-> SubSeq(MwOrder, 1, k), pc |-> "setup", chain |-> <<>>,
             dispatch |-> RawDispatch, nLayer |-> 0]

\* The actions the store and the interface object are called with: users
\* and layers dispatch INC; a middleware, while it is set up, may also
\* dispatch something that is no action.
MiddlewareInputs ==
  {Action("INC")} \cup {NotPlainAction : x \in {y \in {1} : stack # <<>> /\ Top.phase = "setup"}}

NextMiddleware ==
  \/ SetupEnter
  \/ SetupReturn
  \/ SetupRaise
  \/ SetupFinish
  \/ StoreDispatch(Action("INC"))
  \/ \E a \in MiddlewareInputs : ApiDispatch(a)
  \/ LayerNext
  \/ LayerReturn
  \/ ReducerReturn
  \/ NotifyListener
  \/ ListenerReturn
  \/ DispatchReturn
  \/ \E l \in SubscribeInputs : Subscribe(l)
  \/ Catch
  \/ Propagate

SpecMiddleware == InitMiddleware /\ [][NextMiddleware]_vars

\* ---------------------------------------------------------------- observable
\* The arguments of observable().subscribe: an object with a next method,
\* or a value that is not an object.
AnObserver == "observer"
NotAnObject == "notobj"

\* Every call of subscribe(observer) that passes line 489 makes a closure
\* observeState of its own; the closures are named in the order of the
\* calls. Used counts the calls made so far: each has delivered once.
Used == Cardinality({o \in ObsNames : delivered[o] # <<>>})

\* the run may make one more reducer call or call of subscribe(observer)
ObserveBudget == nDispatch + Used < MaxOps

\* observable().subscribe(observer), lines 488-499: the type check, then
\* observeState() calls observer.next(getState()), which starts running
ObservableSubscribe(observer) ==
  /\ CanCall
  /\ ObserveBudget
  /\ IF observer = NotAnObject
     THEN /\ exc' = Error("ObserverNotObject")
          /\ UNCHANGED <<stack, delivered>>
     ELSE /\ delivered' = observeState(ObsOrder[Used + 1])
          /\ stack' = Append(stack, [LayerFrame("next", ObsOrder[Used + 1], <<>>,
                                                Action(INIT), "observable")
                                       EXCEPT !.prev = currentState])
          /\ UNCHANGED exc
  /\ UNCHANGED <<currentReducer, currentState, arrays, currentListeners,
                 nextListeners, isDispatching, subs, nDispatch, config, applied>>
  /\ UNCHANGED <<combineVars, enhancerVars>>

\* the first call of observer.next returns, lines 500-501:
\* outerSubscribe(observeState) runs the body of subscribe (lines 330-340)
\* and its unsubscribe is returned in an object
ObserveReturn ==
  /\ exc = NoError
  /\ stack # <<>> /\ Top.phase = "next"
  /\ stack' = Pop(stack)
  /\ nextListeners' = EnsureCanMutateNextListeners.next
  /\ arrays' = [EnsureCanMutateNextListeners.heap EXCEPT
                  ![nextListeners'] = Append(@, Top.layer)]
  /\ subs' = Append(subs, [listener |-> Top.layer, isSubscribed |-> TRUE])
  /\ UNCHANGED <<currentReducer, currentState, currentListeners, isDispatching,
                 exc, nDispatch, config, applied>>
  /\ UNCHANGED <<combineVars, enhancerVars, delivered>>

\* a store with the counter reducer, created and handed to its user
InitObserve ==
  /\ CombineIdle /\ MwIdle /\ ComposeIdle /\ delivered = NoDeliveries
  /\ StoreInit([reducer |-> Counter, preloaded |-> Undefined])

\* A store whose listeners are all observers. An error is caught by the
\* top-level caller or by the reducer that made the failing call; an
\* observer's next lets the error of a call it made go to its own caller.
NextObserve ==
  \/ ObserveBudget /\ Dispatch(Action("INC"))
  \/ ReducerReturn
  \/ NotifyListener
  \/ ListenerReturn
  \/ DispatchReturn
  \/ \E ob \in {AnObserver} \cup Invalid({NotAnObject}) : ObservableSubscribe(ob)
  \/ ObserveReturn
  \/ \E s \in DOMAIN subs : Unsubscribe(s)
  \/ Throw
  \/ (IF stack = <<>> THEN TRUE ELSE Top.phase = "reducer") /\ Catch
  \/ Propagate

SpecObserve == InitObserve /\ [][NextObserve]_vars

\* ------------------------------------------------------- calls that raise
\* a composed reducer with a sub-reducer that returns undefined for BAD
ReducerBad == CombineReducers(<<Entry("a", "counter"), Entry("b", "badact")>>).closure

\* a store with that reducer, created and handed to its user
InitRaise ==
  /\ CombineIdle /\ MwIdle /\ ComposeIdle /\ delivered = NoDeliveries
  /\ StoreInit([reducer |-> ReducerBad, preloaded |-> Undefined])

\* the arguments of dispatch and replaceReducer: BAD makes the reducer
\* raise (lines 169-172), ReducerNoInit raises on every call (line 151)
RaiseInputs ==
  {Action("INC"), Action("BAD")} \cup Invalid({NotPlainAction, Action(TypeUndefined)})
RaiseReplacements == {ReducerBad, ReducerNoInit} \cup Invalid({NotAReducer})

\* A store with listeners whose dispatch and replaceReducer calls are made
\* from the top level, from listeners and from reducers, with arguments
\* that make them raise.
NextRaise ==
  \/ \E a \in RaiseInputs : Dispatch(a)
  \/ \E r \in RaiseReplacements : ReplaceReducer(r)
  \/ ReducerReturn
  \/ NotifyListener
  \/ ListenerReturn
  \/ DispatchReturn
  \/ \E l \in SubscribeInputs : Subscribe(l)
  \/ Throw
  \/ Catch
  \/ Propagate

SpecRaise == InitRaise /\ [][NextRaise]_vars

\* --------------------------------------- a composed reducer called directly
\* the reducers arguments explored: the keys of MapKeys, each at most once,
\* in any order, with any value
MapKeys == {"a", "b"}
EntrySet == {Entry(k, r) : k \in MapKeys, r \in SubReducerKinds \cup {NotAFunction}}
ReducerMaps ==
  UNION {{m \in [1..n -> EntrySet] : \A i, j \in 1..n : i # j => m[i].key # m[j].key}
         : n \in 0..Cardinality(MapKeys)}

\* the states and action types the closure is called with
CallStates ==
  {Undefined, Num(0)} \cup {Obj(1, f) : f \in [Keys -> {Absent, 0}]}
CallTypes == {INIT, "INC", "NOPE", "BAD"}

InitCombine ==
  /\ \E c \in StoreConfigs : StoreInit(c)
  /\ MwIdle /\ ComposeIdle /\ delivered = NoDeliveries
  /\ cpc = "start"
  /\ creducers \in ReducerMaps
  /\ comb = CombineReducers(<<>>).closure
  /\ cache = {}
  /\ cstate = Undefined
  /\ caction = Action(INIT)
  /\ cresult = NoCall
  /\ cwarned = <<>>
  /\ ncalls = 0
  /\ cstore = NoStore

\* combineReducers(creducers)
Compose ==
  /\ cpc = "start"
  /\ cpc' = IF CombineReducers(creducers).thrown = NoError THEN "composed" ELSE "failed"
  /\ comb' = CombineReducers(creducers).closure
  /\ UNCHANGED <<creducers, cache, cstate, caction, cresult, cwarned, ncalls, cstore>>
  /\ UNCHANGED <<storeVars, enhancerVars, delivered>>

\* The closure is called with (state, action), lines 150-177: the deferred
\* error first, then the development-mode warning, then the loop.
Call(state, action) ==
  /\ cpc = "composed"
  /\ ncalls < MaxCalls
  /\ ncalls' = ncalls + 1
  /\ cstate' = state
  /\ caction' = action
  /\ LET defaulted == IF IsUndefined(state) THEN Obj(FreshRef(state), NoFields) ELSE state
         w == UnexpectedStateShapeWarning(defaulted, comb, cache)
         raised == IF w.msg # "" THEN Warning(w.msg) ELSE NoError
     IN IF comb.sanityError # NoError
        THEN /\ cresult' = Combination(comb, state, action, FreshRef(state))
             /\ UNCHANGED <<cache, cwarned>>
        ELSE /\ cache' = w.cache /\ cwarned' = Append(cwarned, w.keys)
             /\ cresult' = IF raised # NoError
                           THEN [err |-> raised, val |-> Undefined, called |-> <<>>]
                           ELSE Combination(comb, state, action, FreshRef(state))
  /\ UNCHANGED <<cpc, creducers, comb, cstore>>
  /\ UNCHANGED <<storeVars, enhancerVars, delivered>>

\* createStore(closure, preloadedState)
CreateStoreOn(preloadedState) ==
  /\ cpc = "composed"
  /\ ~cstore.built
  /\ cstore' = [built |-> TRUE,
                err |-> CreateStore(comb, preloadedState).err,
                currentState |-> CreateStore(comb, preloadedState).currentState]
  /\ UNCHANGED <<cpc, creducers, comb, cache, cstate, caction, cresult, cwarned, ncalls>>
  /\ UNCHANGED <<storeVars, enhancerVars, delivered>>

\* the states the closure is called with: the explored ones and the state
\* its previous call returned
CallInputs ==
  CallStates \cup {cresult.val : x \in {y \in {1} : ncalls > 0 /\ cresult.err = NoError}}

NextCombine ==
  \/ Compose
  \/ \E st \in CallInputs, t \in CallTypes : Call(st, Action(t))
  \/ \E p \in CallStates : CreateStoreOn(p)

SpecCombine == InitCombine /\ [][NextCombine]_vars

\* ----------------------------------------------------- compose called directly
\* the unary functions compose is called with:
\*   succ  x => Math.min(x + 1, 2),  twice  x => Math.min(2 * x, 2),
\*   pred  x => Math.max(x - 1, 0)
TableFns ==
  { TableFn("succ", [x \in Domain |-> IF x + 1 > 2 THEN 2 ELSE x + 1]),
    TableFn("twice", [x \in Domain |-> IF 2 * x > 2 THEN 2 ELSE 2 * x]),
    TableFn("pred", [x \in Domain |-> IF x = 0 THEN 0 ELSE x - 1]) }

InitCompose ==
  /\ \E c \in StoreConfigs : StoreInit(c)
  /\ CombineIdle /\ MwIdle /\ delivered = NoDeliveries
  /\ \E fs \in UNION {[1..n -> TableFns] : n \in 0..MaxFuncs}, x \in Domain :
       kc = [pc |-> "start", funcs |-> fs, arg |-> x, ret |-> NoFunction, out |-> 0]

\* composed = compose(...funcs)
CallCompose ==
  /\ kc.pc = "start"
  /\ kc' = [kc EXCEPT !.ret = compose(kc.funcs), !.pc = "composed"]
  /\ UNCHANGED <<storeVars, combineVars, mw, delivered>>

\* composed(arg)
CallComposed ==
  /\ kc.pc = "composed"
  /\ kc' = [kc EXCEPT !.out = Apply(kc.ret, kc.arg), !.pc = "done"]
  /\ UNCHANGED <<storeVars, combineVars, mw, delivered>>

NextCompose == CallCompose \/ CallComposed

SpecCompose == InitCompose /\ [][NextCompose]_vars

\* ------------------------------------------------------------------ claims
Count(seq, x) == Cardinality({i \in 1..Len(seq) : seq[i] = x})
CountRegs(regs, fn) == Cardinality({s \in regs : subs[s].listener = fn})
Frames == {stack[k] : k \in DOMAIN stack}
InLoop(F) == F.phase # "reducer"
LoopDone(F) == F.phase = "notify" /\ F.i >= Len(arrays[F.listeners])

\* the listeners of the subscriptions not yet unsubscribed, in subscribe order
ActiveListeners ==
  LET IsSub(c) == c.isSubscribed
      act == SelectSeq(subs, IsSub)
  IN [i \in 1..Len(act) |-> act[i].listener]

\* C1: Subscription changes made while the notification pass of a dispatch
\* runs do not touch that pass: the list it iterates stays the list it
\* started on, and it invokes that list's listeners in order. The list a
\* pass starts on holds, for each function, one entry per subscription that
\* was active when the pass started: a subscription made during an earlier
\* or enclosing pass is in it, one cancelled during such a pass is not.
C1_ListenerIsolation ==
  \A F \in Frames : InLoop(F) =>
    /\ arrays[F.listeners] = F.snap
    /\ Len(F.called) = F.i + (IF F.phase = "listener" THEN 1 ELSE 0)
    /\ F.called = SubSeq(F.snap, 1, Len(F.called))
    /\ \A fn \in Fns : Count(F.snap, fn) = CountRegs(F.regs, fn)

\* C1 witness: inside a listener of dispatch F, X was subscribed and Y was
\* unsubscribed, then a nested dispatch G started: G invoked X and not Y,
\* F invoked Y and its list does not hold X.
C1_Witness ==
  \E k, m \in DOMAIN stack : \E X, Y \in DOMAIN subs :
    /\ k < m /\ InLoop(stack[k]) /\ InLoop(stack[m])
    /\ X \in stack[m].regs /\ X > stack[k].nsubs
    /\ Count(stack[m].called, subs[X].listener) = 1
    /\ Count(stack[k].snap, subs[X].listener) = 0
    /\ Y \in stack[k].regs /\ Y \notin stack[m].regs
    /\ Count(stack[k].called, subs[Y].listener) = 1
    /\ Count(stack[m].snap, subs[Y].listener) = 0
    /\ LoopDone(stack[m])

\* C2 (as claimed): when the notification pass of a dispatch is over, every
\* subscription that was active when the dispatch was entered has been
\* invoked exactly once: per function, at least as many calls as such
\* subscriptions, and no more than those plus the ones made since.
C2_EveryListenerOnce ==
  \A F \in Frames : LoopDone(F) =>
    \A fn \in Fns :
      /\ Count(F.called, fn) >= CountRegs(F.regsBefore, fn)
      /\ Count(F.called, fn) <= CountRegs(F.regsBefore \cup {s \in DOMAIN subs : s > F.nsubs}, fn)

\* C3 (as claimed): the list a dispatch notifies holds exactly the
\* subscriptions that were active when the dispatch was entered.
C3_SnapshotAtEntry ==
  \A F \in Frames : InLoop(F) =>
    \A fn \in Fns : Count(F.snap, fn) = CountRegs(F.regsBefore, fn)

\* C4: At most one reducer call is in progress, it belongs to the innermost
\* dispatch, and isDispatching is set exactly while it runs; the dispatch
\* calls below it are all inside a listener.
C4_NoNestedReducer ==
  /\ Cardinality({k \in DOMAIN stack : stack[k].phase = "reducer"}) <= 1
  /\ \A k \in DOMAIN stack : k < Len(stack) => stack[k].phase = "listener"
  /\ isDispatching <=> (stack # <<>> /\ Top.phase = "reducer")

\* C4 witness: a dispatch made by the running reducer was rejected
C4_Witness ==
  /\ exc.kind = "ReducersMayNotDispatch"
  /\ stack # <<>> /\ Top.phase = "reducer" /\ Len(stack) = 1
  /\ isDispatching

\* C5: Once every dispatch call has returned or raised, isDispatching is
\* clear, and dispatch accepts a valid action.
C5_FlagReset ==
  stack = <<>> =>
    /\ ~isDispatching
    /\ \A t \in UserTypes : DispatchCheck(Action(t)) = NoError

\* C5 witness: the reentrancy error raised inside a reducer has left the
\* dispatch call and reached the top level
C5_Witness ==
  /\ stack = <<>>
  /\ exc.kind = "ReducersMayNotDispatch"
  /\ nDispatch > 0

\* C6 (as claimed): when replaceReducer is called on a state with the keys
\* a, b, c with a composed reducer for the keys a, b, the state it leaves
\* has exactly the keys a, b.
C6_ImmediateReshape ==
  \A F \in Frames :
    ( /\ F.via = "replaceReducer" /\ InLoop(F)
      /\ ObjectKeys(F.prev) = {"a", "b", "c"}
      /\ FinalKeys(F.reducer) = {"a", "b"} )
    => ObjectKeys(currentState) = {"a", "b"}

\* every retained sub-reducer returns its input value for (cstate, caction)
AllKept ==
  \A i \in DOMAIN comb.final :
    StrictEq(SubReduce(comb.final[i].r, GetKey(cstate, comb.final[i].key), caction),
             GetKey(cstate, comb.final[i].key))

\* C7: A call of the composed reducer with a state, for which every retained
\* sub-reducer returns its input value, returns that very state object; a
\* call for which some sub-result differs returns a new object whose keys
\* are the retained reducer keys.
C7_NoOpSameReference ==
  (ncalls > 0 /\ cresult.err = NoError /\ ~IsUndefined(cstate)) =>
    IF AllKept
    THEN cresult.val = cstate
    ELSE /\ cresult.val.t = "obj"
         /\ ~StrictEq(cresult.val, cstate)
         /\ ObjectKeys(cresult.val) = FinalKeys(comb)

\* C7 witness: a call with two retained sub-reducers, on a state with the
\* unexpected key c, that no sub-reducer changed, returned the state itself
C7_Witness ==
  /\ ncalls > 0 /\ cresult.err = NoError
  /\ AllKept /\ Len(comb.final) = 2
  /\ cstate.t = "obj" /\ cstate.f["c"] # Absent
  /\ cresult.val = cstate

\* the left fold of the reducers over the actions of applied, from state
RECURSIVE FoldApplied(_, _)
FoldApplied(state, i) ==
  IF i > Len(applied) THEN state
  ELSE FoldApplied(Reduce(applied[i].reducer, state, applied[i].action, FreshRef(state)).val,
                   i + 1)

\* C8: The state is the left fold of the reducer over the actions whose
\* reducer calls returned, in that order, from reducer(preloadedState, INIT).
C8_StateIsFold ==
  currentState =
    FoldApplied(Reduce(config.reducer, config.preloaded, Action(INIT),
                       FreshRef(config.preloaded)).val, 1)

\* C8 witness: three INC dispatches gave 3, a NOPE dispatch left 3
C8_Witness ==
  /\ stack = <<>>
  /\ Len(applied) = 4
  /\ \A i \in 1..3 : applied[i].action.type = "INC"
  /\ applied[4].action.type = "NOPE"
  /\ currentState = Num(3)

\* C9 (as claimed): every unsubscribe call removes the registration of its
\* own subscribe call or nothing, so the next list always holds the
\* listeners of the active subscriptions in the order they were subscribed.
C9_OwnRegistrationOnly == arrays[nextListeners] = ActiveListeners

\* some retained sub-reducer returns undefined for (undefined, INIT) or for
\* (undefined, probe)
SanityFails ==
  \E i \in DOMAIN FinalReducers(creducers) :
    \/ IsUndefined(SubReduce(FinalReducers(creducers)[i].r, Undefined, Action(INIT)))
    \/ IsUndefined(SubReduce(FinalReducers(creducers)[i].r, Undefined, Action(PROBE)))

\* C10: combineReducers never raises. When a retained sub-reducer fails the
\* sanity check, the closure keeps the error, every call of the closure
\* raises it before any sub-reducer is called, and createStore on the
\* closure raises it.
C10_SanityDeferred ==
  /\ cpc # "failed"
  /\ (cpc = "composed" /\ SanityFails) =>
       /\ comb.sanityError.kind \in {"InitUndefined", "ProbeUndefined"}
       /\ ncalls > 0 => (cresult.err = comb.sanityError /\ cresult.called = <<>>)
       /\ cstore.built => cstore.err = comb.sanityError

\* C10 witness: a closure whose second reducer fails the probe was called
\* and a store was built on it
C10_Witness ==
  /\ cpc = "composed" /\ SanityFails
  /\ Len(comb.final) = 2
  /\ ncalls > 0 /\ cresult.err.kind = "ProbeUndefined" /\ cresult.err.key = "b"
  /\ cstore.built /\ cstore.err.kind = "ProbeUndefined"

\* the index in the retained reducers of the first key whose sub-reducer
\* returns undefined for (cstate[key], caction), 0 when there is none
FirstUndefined ==
  LET bad == {i \in DOMAIN comb.final :
                IsUndefined(SubReduce(comb.final[i].r,
                                      GetKey(cstate, comb.final[i].key), caction))}
  IN IF bad = {} THEN 0 ELSE CHOOSE i \in bad : \A j \in bad : i <= j

\* C11: A call of a composed reducer never returns undefined. For a closure
\* that passed the sanity check: when some retained sub-reducer returns
\* undefined for its slice and the action, the call raises the error that
\* names the first such key in insertion order and the action's type, having
\* called the sub-reducers up to that key and none after it; otherwise the
\* call returns a defined state. A store built on the closure holds a
\* defined state.
C11_NeverAbsent ==
  /\ (ncalls > 0 /\ cresult.err = NoError) => ~IsUndefined(cresult.val)
  /\ (cstore.built /\ cstore.err = NoError) => ~IsUndefined(cstore.currentState)
  /\ (ncalls > 0 /\ comb.sanityError = NoError) =>
       IF FirstUndefined # 0
       THEN /\ cresult.err = KeyError("UndefinedState", comb.final[FirstUndefined].key,
                                      caction.type)
            /\ cresult.called = [i \in 1..FirstUndefined |-> comb.final[i].key]
       ELSE /\ cresult.err = NoError
            /\ cresult.called = [i \in 1..Len(comb.final) |-> comb.final[i].key]

\* C11 witness: both sub-reducers, inserted in the order b, a, return
\* undefined for the action: the error names b and a's reducer was not called
C11_Witness ==
  /\ ncalls > 0 /\ comb.sanityError = NoError
  /\ Len(comb.final) = 2 /\ comb.final[1].key = "b"
  /\ comb.final[1].r = "badact" /\ comb.final[2].r = "badact"
  /\ caction.type = "BAD"
  /\ cresult.err = KeyError("UndefinedState", "b", "BAD")
  /\ cresult.called = <<"b">>

\* C12 (as claimed): the state of a store is never undefined.
C12_StateNeverAbsent == ~IsUndefined(currentState)

\* f1(f2(...fn(x))) for the functions funcs[i..n]
RECURSIVE Nested(_, _, _)
Nested(funcs, i, x) ==
  IF i > Len(funcs) THEN x ELSE funcs[i].map[Nested(funcs, i + 1, x)]

\* C18: compose(f1, ..., fn)(x) is f1(f2(...fn(x))); compose() returns a
\* function that returns its argument; compose(f) returns f itself.
C18_ComposeRightToLeft ==
  /\ kc.pc = "done" => kc.out = Nested(kc.funcs, 1, kc.arg)
  /\ (kc.pc = "done" /\ Len(kc.funcs) = 0) => kc.out = kc.arg
  /\ (kc.pc \in {"composed", "done"} /\ Len(kc.funcs) = 1) => kc.ret = kc.funcs[1]

\* C18 witness: compose(pred, succ, twice)(1) is pred(succ(twice(1))) = 1,
\* where twice(succ(pred(1))) is 2
C18_Witness ==
  /\ kc.pc = "done" /\ Len(kc.funcs) = 3
  /\ kc.funcs[1].ref = "pred" /\ kc.funcs[2].ref = "succ" /\ kc.funcs[3].ref = "twice"
  /\ kc.arg = 1 /\ kc.out = 1

\* the frames of the calls of store.dispatch
IsRaw(F) == F.phase \in {"reducer", "notify", "listener"}

\* C13: The dispatch of the augmented store goes through the layers of
\* m1, ..., mK in this order and then to store.dispatch: a call of it
\* enters the layer of m1, a layer's call of next enters the layer of the
\* following middleware with the same action, the next of mK's layer is
\* store.dispatch, and a reducer call is in progress only below the layers
\* of all of m1, ..., mK, each of which called next. With no middleware
\* the call goes to store.dispatch at once.
C13_ChainOrder ==
  LET K == Len(mw.middlewares)
  IN /\ mw.pc = "ready" => mw.dispatch = mw.middlewares
     /\ \A p \in DOMAIN stack :
          LET F == stack[p]
          IN /\ (F.phase = "mw" /\ F.via = "dispatch") => F.layer = mw.middlewares[1]
             /\ (F.phase = "mw" /\ F.via = "next") =>
                  /\ p > 1 /\ stack[p - 1].phase = "mw"
                  /\ F.action = stack[p - 1].action
                  /\ \E i \in 1..(K - 1) : /\ stack[p - 1].layer = mw.middlewares[i]
                                            /\ F.layer = mw.middlewares[i + 1]
             /\ (IsRaw(F) /\ F.via = "next") =>
                  /\ p > K
                  /\ \A i \in 1..K : /\ stack[p - K - 1 + i].phase = "mw"
                                      /\ stack[p - K - 1 + i].layer = mw.middlewares[i]
                                      /\ stack[p - K - 1 + i].action = F.action
             /\ (IsRaw(F) /\ F.via = "dispatch") => K = 0
             /\ (IsRaw(F) /\ mw.pc = "ready" /\ K > 0) => F.via = "next"

\* C13 witness: with two mw.middlewares, the reducer runs below the layers of
\* m1 and m2, entered by a call of the augmented store's dispatch
C13_Witness ==
  /\ mw.pc = "ready" /\ mw.middlewares = <<"m1", "m2">>
  /\ Len(stack) = 3
  /\ stack[1].phase = "mw" /\ stack[1].layer = "m1" /\ stack[1].via = "dispatch"
  /\ stack[2].phase = "mw" /\ stack[2].layer = "m2" /\ stack[2].via = "next"
  /\ stack[3].phase = "reducer" /\ stack[3].via = "next"

\* C14 (as claimed): every call of the interface object's dispatch enters
\* the layer of the first middleware.
C14_ApiDispatchThroughChain ==
  \A F \in Frames :
    (F.via = "api" /\ Len(mw.middlewares) > 0) =>
      (F.phase = "mw" /\ F.layer = mw.middlewares[1])

NoReducerRunning == \A k \in DOMAIN stack : stack[k].phase # "reducer"

\* C15: Outside every reducer call, the code of a listener or of a
\* middleware layer may dispatch: the reentrancy check accepts a valid
\* action. While a dispatch made there is in progress, the dispatch calls
\* around it stand still, each inside the listener or layer that made the
\* call, and the nested dispatch returns only when its own notification
\* pass is over.
C15_FreeToDispatch ==
  /\ []((stack # <<>> /\ Top.phase \in {"listener", "mw"} /\ NoReducerRunning)
          => DispatchCheck(Action("INC")) = NoError)
  /\ [](\A k \in 1..(Len(stack) - 1) : stack[k].phase # "notify")
  /\ [][/\ \A k \in 1..(Len(stack) - 1) : stack'[k] = stack[k]
        /\ (Len(stack') < Len(stack) /\ IsRaw(Top) /\ exc' = NoError) => LoopDone(Top)]_vars

\* C15 witness: a listener of a dispatch in progress dispatched through a
\* middleware layer; the nested dispatch ran its reducer and has finished
\* its pass, while the outer pass still is at that listener, with another
\* listener to go
C15_Witness ==
  /\ Len(stack) = 4
  /\ stack[1].phase = "mw"
  /\ stack[2].phase = "listener" /\ stack[2].i + 1 < Len(stack[2].snap)
  /\ stack[3].phase = "mw" /\ stack[3].via = "dispatch"
  /\ IsRaw(stack[4]) /\ LoopDone(stack[4]) /\ Len(stack[4].called) = 2
  /\ currentState = Num(2)

\* the listeners of the subscriptions regs, in the order of their subscribe calls
RegOrder(regs) ==
  LET nth(k) == CHOOSE r \in regs : Cardinality({t \in regs : t < r}) = k - 1
  IN [k \in 1..Cardinality(regs) |-> subs[nth(k)].listener]

\* C19 (as claimed): the list a notification pass goes through holds the
\* listeners of the subscriptions active when the pass started, the one
\* subscribed first coming first, and the pass invokes them in that order.
C19_RegistrationOrder ==
  \A F \in Frames : InLoop(F) =>
    /\ F.snap = RegOrder(F.regs)
    /\ Len(F.called) <= Len(F.snap)
    /\ F.called = SubSeq(F.snap, 1, Len(F.called))

\* C20: The array a dispatch in flight iterates is the one its pass started
\* with, element for element, whatever subscribe and unsubscribe calls were
\* made since; and when nextListeners is that array it is also
\* currentListeners, so that the next mutation copies it first: an array
\* mutated in place (nextListeners other than currentListeners) is the
\* snapshot of no dispatch in flight, outer or nested.
C20_SnapshotStable ==
  \A F \in Frames : InLoop(F) =>
    /\ arrays[F.listeners] = F.snap
    /\ F.listeners = nextListeners => nextListeners = currentListeners

\* C20 witness: the running listener has subscribed twice, the first call
\* copied the array its dispatch iterates and the second mutated the copy
\* in place; the iterated array still is what it was.
C20_Witness ==
  /\ stack # <<>> /\ Top.phase = "listener"
  /\ Len(subs) >= Top.nsubs + 2
  /\ nextListeners # Top.listeners /\ nextListeners # currentListeners
  /\ Len(arrays[nextListeners]) = Len(Top.snap) + 2
  /\ arrays[Top.listeners] = Top.snap
\* the value the observer of closure o received last
LastDelivered(o) == delivered[o][Len(delivered[o])]

SubOf(o) == CHOOSE s \in DOMAIN subs : subs[s].listener = o

\* the first call of the next of closure o starts in this step
FirstCall(o) ==
  /\ Len(stack') = Len(stack) + 1
  /\ stack'[Len(stack')].phase = "next"
  /\ stack'[Len(stack')].layer = o

Invoked(stk) == [k \in DOMAIN stk |-> stk[k].called]

\* this step ends a call by an error raised before or during a reducer
\* call: a check that fails (no frame is made), or the reducer of the
\* innermost dispatch raising
RaisedEarly ==
  /\ exc' # NoError
  /\ \/ exc = NoError /\ stack' = stack
     \/ stack # <<>> /\ Top.phase = "reducer" /\ stack' = Pop(stack)

\* C21: While the reducer call of a dispatch is in progress the state is
\* the one the dispatch found and the dispatch has invoked no listener; a
\* step in which a dispatch raises from its checks or from its reducer call
\* leaves the state and the listeners invoked as they were.
C21_FailedDispatchNoEffect ==
  /\ [](\A F \in Frames : F.phase = "reducer" =>
          currentState = F.prev /\ F.called = <<>>)
  /\ [][RaisedEarly =>
          /\ currentState' = currentState
          /\ Invoked(stack') = SubSeq(Invoked(stack), 1, Len(stack'))]_vars

\* C21 witness: with a listener subscribed and a after one INC, the
\* dispatch of BAD raised for key b; no listener was invoked and the state
\* still is the one of the INC.
C21_Witness ==
  /\ stack = <<>>
  /\ exc.kind = "UndefinedState" /\ exc.key = "b" /\ exc.type = "BAD"
  /\ Len(subs) >= 1 /\ Active # {}
  /\ Len(applied) = 1 /\ applied[1].action.type = "INC"
  /\ currentState.t = "obj" /\ currentState.f["a"] = 1
\* a replaceReducer call is waiting for the reducer call of its dispatch
ReplaceInProgress ==
  \E k \in DOMAIN stack : stack[k].via = "replaceReducer" /\ stack[k].phase = "reducer"

\* C22 (as claimed): a replaceReducer call that raises from its argument
\* check, from the reentrancy check or from the new reducer leaves the
\* active reducer as it was; so, outside such a call, the active reducer
\* is the one of the last reducer call that returned, or the one the store
\* was created with when none has.
C22_FailedReplaceNoEffect ==
  ~ReplaceInProgress =>
    currentReducer = IF applied = <<>> THEN config.reducer
                     ELSE applied[Len(applied)].reducer
\* the errors a call of a composed reducer may raise: the deferred sanity
\* error and the one for a sub-reducer that returned undefined
ReducerErrors == {"InitUndefined", "ProbeUndefined", "UndefinedState"}

\* C23: Over the calls made to one composed reducer, no unexpected key is
\* named by the warning of more than one call; the error of a call, if
\* any, is one of the reducer's own, never a warning; and the call's
\* result is what the loop over the retained reducers gives for the state
\* and action of the call, whatever was warned about.
C23_WarnOncePerKey ==
  /\ \A k \in Keys : Cardinality({i \in DOMAIN cwarned : k \in cwarned[i]}) <= 1
  /\ cresult.err # NoError => cresult.err.kind \in ReducerErrors
  /\ (ncalls > 0 /\ comb.sanityError = NoError) =>
       LET st == IF IsUndefined(cstate) THEN Obj(FreshRef(cstate), NoFields) ELSE cstate
           loop == CombinationLoop(comb.final, 1, st, caction, NoFields, FALSE, <<>>)
       IN /\ cresult.err = loop.err
          /\ loop.err = NoError =>
               cresult.val = IF loop.hasChanged THEN Obj(FreshRef(cstate), loop.f) ELSE st

\* C23 witness: two calls were made with states that hold the key c, which
\* has no reducer; the first call warned about c, the second did not, and
\* the second returned without error.
C23_Witness ==
  /\ ncalls = 2 /\ Len(comb.final) >= 1
  /\ cwarned = <<{"c"}, {}>>
  /\ cstate.t = "obj" /\ cstate.f["c"] # Absent
  /\ cresult.err = NoError
====
